---- MODULE Spec2Model ----
(***************************************************************************)
(* Model of src/main.py: a straight-line movie budget / revenue analysis.  *)
(* The script is one pass over a table: load, clean, summarise, segment,   *)
(* report extremes and zero-revenue films, filter by release cutoff, fit   *)
(* a least-squares line.  Each numbered section of the script is one       *)
(* action; pc names the section that runs next.                            *)
(*                                                                         *)
(* Floats are [nan, v]: nan marks the missing value (NaN), v is the value  *)
(* in whole dollars.  Dates are [nat, d]: nat marks NaT, d = yyyymmdd.     *)
(* Quotients of floats (means, quantiles, regression coefficients) are     *)
(* kept exact as numerator / denominator.                                  *)
(***************************************************************************)
EXTENDS Integers, Sequences, FiniteSets, TLC

\* ---------------------------------------------------------------- bounds
MaxRows == 3
LongRows == 6

\* ------------------------------------------------------ program constants
Q1Pct == 25
HeadN == 5

\* ---------------------------------------------------------- float values
F(x) == [nan |-> FALSE, v |-> x]
NaN == [nan |-> TRUE, v |-> 0]
NaT == [nat |-> TRUE, d |-> 0]
Date(x) == [nat |-> FALSE, d |-> x]

\* IEEE comparisons: every comparison with NaN (or NaT) is false.
Gt(a, b) == ~a.nan /\ ~b.nan /\ a.v > b.v
Eq(a, b) == ~a.nan /\ ~b.nan /\ a.v = b.v
Sub(a, b) == IF a.nan \/ b.nan THEN NaN ELSE F(a.v - b.v)
DateLe(a, b) == ~a.nat /\ ~b.nat /\ a.d <= b.d
DateGt(a, b) == ~a.nat /\ ~b.nat /\ a.d > b.d

\* ------------------------------------------------------- sequence helpers
RECURSIVE SumSeq(_)
SumSeq(s) == IF s = <<>> THEN 0 ELSE Head(s) + SumSeq(Tail(s))

RECURSIVE FilterIdx(_, _, _)
\* the indices i of t, ascending, with keep[i]: a boolean-mask selection
FilterIdx(keep, n, i) ==
    IF i > n THEN <<>>
    ELSE IF keep[i] THEN <<i>> \o FilterIdx(keep, n, i + 1)
    ELSE FilterIdx(keep, n, i + 1)

Mask(t, keep) == LET ix == FilterIdx(keep, Len(t), 1)
                 IN  [j \in 1..Len(ix) |-> t[ix[j]]]

Column(t, c) == [i \in 1..Len(t) |-> t[i][c]]

\* the non-missing values of a column, in table order
Valid(col) == LET ix == FilterIdx([i \in 1..Len(col) |-> ~col[i].nan], Len(col), 1)
              IN  [j \in 1..Len(ix) |-> col[ix[j]].v]

RECURSIVE InsertAsc(_, _)
InsertAsc(x, s) == IF s = <<>> THEN <<x>>
                   ELSE IF x <= Head(s) THEN <<x>> \o s
                   ELSE <<Head(s)>> \o InsertAsc(x, Tail(s))

RECURSIVE SortAsc(_)
SortAsc(s) == IF s = <<>> THEN <<>> ELSE InsertAsc(Head(s), SortAsc(Tail(s)))

\* ------------------------------------------------------------- 2) cleaning
Digits == {"0", "1", "2", "3", "4", "5", "6", "7", "8", "9"}

DigitVal(c) == CASE c = "0" -> 0 [] c = "1" -> 1 [] c = "2" -> 2 [] c = "3" -> 3
                 [] c = "4" -> 4 [] c = "5" -> 5 [] c = "6" -> 6 [] c = "7" -> 7
                 [] c = "8" -> 8 [] c = "9" -> 9

\* replace({r"[$,]": ""}, regex=True): every '$' and ',' is removed
StripCurrency(cell) == SelectSeq(cell, LAMBDA c : c \notin {"$", ","})

Unsigned(s) == IF s # <<>> /\ Head(s) = "-" THEN Tail(s) ELSE s

\* float(s) succeeds: an optional sign and at least one digit
\* (the cells of the model use only the characters $ , - x and digits)
IsNumeric(s) == Unsigned(s) # <<>> /\ \A i \in 1..Len(Unsigned(s)) : Unsigned(s)[i] \in Digits

RECURSIVE DecVal(_)
DecVal(s) == IF s = <<>> THEN 0 ELSE 10 * DecVal(SubSeq(s, 1, Len(s) - 1)) + DigitVal(s[Len(s)])

\* astype(float) of one cell; an empty cell was read as NaN and stays NaN
ToFloat(cell) ==
    IF cell = <<>> THEN NaN
    ELSE LET s == StripCurrency(cell)
         IN  IF Head(s) = "-" THEN F(0 - DecVal(Tail(s))) ELSE F(DecVal(s))

Convertible(cell) == cell = <<>> \/ IsNumeric(StripCurrency(cell))

currency_cols == <<"USD_Production_Budget", "USD_Worldwide_Gross", "USD_Domestic_Gross">>

\* ---------------------------------------------------------- 3) date parse
IsLeap(yr) == (yr % 4 = 0 /\ yr % 100 # 0) \/ yr % 400 = 0

DaysIn(m, yr) == IF m = 2 THEN (IF IsLeap(yr) THEN 29 ELSE 28)
                 ELSE IF m \in {4, 6, 9, 11} THEN 30 ELSE 31

\* to_datetime(dayfirst=False, errors="coerce") of a cell <<month, day, year>>;
\* anything that is no calendar date becomes NaT instead of raising
ToDatetime(cell) ==
    IF Len(cell) = 3 /\ cell[1] \in 1..12 /\ cell[2] \in 1..DaysIn(cell[1], cell[3])
    THEN Date(cell[3] * 10000 + cell[1] * 100 + cell[2])
    ELSE NaT

\* ------------------------------------------------------------ input files
\* A cell of a currency column is its text, one character per element; <<>> is
\* an empty cell.  A cell of Release_Date is <<month, day, year>>, or <<>>.
Cell0 == <<"$", "0">>
Cell1 == <<"$", "1">>
Cell2 == <<"$", "2">>
Cell3 == <<"$", "3">>
Cell5 == <<"$", "5">>
Cell10 == <<"$", "1", ",", "0">>
CellNeg == <<"-", "1">>
CellBad == <<"x">>
CellSym == <<"$">>
CellEmpty == <<>>
Cell1002 == <<"$", "1", ",", "0", "0", "2">>
Cell1004 == <<"$", "1", ",", "0", "0", "4">>

DayOld == <<8, 2, 1915>>
DayCutoff == <<5, 1, 2018>>
DayAfter == <<5, 2, 2018>>
DayInvalid == <<2, 30, 2018>>

RawRows(budgets, worldwide, domestic, dates) ==
    [Release_Date : dates, USD_Production_Budget : budgets,
     USD_Domestic_Gross : domestic, USD_Worldwide_Gross : worldwide]

\* tables that differ in budget and worldwide gross, with missing budgets
ValueRows == RawRows({Cell1, Cell2, CellEmpty}, {Cell0, Cell1, Cell3}, {Cell0}, {DayOld})
\* tables that differ in release date
DateRows == RawRows({Cell2}, {Cell5}, {Cell1}, {DayOld, DayCutoff, DayAfter, DayInvalid})
\* tables with dirty currency cells
DirtyRows == RawRows({Cell10, CellNeg, CellBad}, {Cell2, CellEmpty}, {Cell0, CellSym}, {DayOld})
\* tables on and off the line gross = 2 * budget + 1000
LineRows == RawRows({Cell1, Cell2}, {Cell1002, Cell1004}, {Cell5}, {DayOld, DayAfter})
\* long tables: one film with domestic gross, then films without
PaidRows == RawRows({Cell3}, {Cell5}, {Cell5}, {DayOld})
ZeroDomRows == RawRows({Cell1, Cell2}, {Cell5}, {Cell0}, {DayOld})
LongTables == {<<r>> \o t : r \in PaidRows, t \in [1..LongRows -> ZeroDomRows]}

TablesOf(rows, lens) == UNION {[1..n -> rows] : n \in lens}

InputFiles ==
    {[exists |-> FALSE, rows |-> <<>>]} \cup
    {[exists |-> TRUE, rows |-> t] :
        t \in TablesOf(ValueRows, 0..MaxRows) \cup TablesOf(DateRows, 1..MaxRows)
              \cup TablesOf(DirtyRows, 1..MaxRows) \cup TablesOf(LineRows, 1..MaxRows)
              \cup LongTables}

\* ------------------------------------------------------------------ state
VARIABLES
    file,            \* cost_revenue_dirty.csv
    pc,              \* the section of the script that runs next
    error,           \* the exception that ended the run, "" while none
    df,              \* the base table
    summary,         \* section 4: the means, minima and date range
    q1, bottom_25, profitable_cnt, loss_cnt, pct_profitable,
    max_budget_row, max_gross_row, min_budget_row,
    zero_domestic, zero_worldwide,
    printed,         \* the table most recently printed (sections 9 and 10)
    intl_only,
    data_clean, unreleased, losses,
    X, y, theta_0, theta_1, pred

vars == <<file, pc, error, df, summary, q1, bottom_25, profitable_cnt, loss_cnt,
          pct_profitable, max_budget_row, max_gross_row, min_budget_row,
          zero_domestic, zero_worldwide, printed, intl_only, data_clean,
          unreleased, losses, X, y, theta_0, theta_1, pred>>

\* the exceptions that end a run
FileNotFoundError == "FileNotFoundError"
CurrencyError == "ValueError: could not convert string to float"
PlotError == "ValueError: histplot"
ArgmaxError == "ValueError: argmax of an empty sequence"
NoSamplesError == "ValueError: Found array with 0 sample(s)"
NaNInputError == "ValueError: Input contains NaN"

\* an exact quotient num / den, or the missing value
Q(n, d) == [nan |-> FALSE, num |-> n, den |-> d]
QNaN == [nan |-> TRUE, num |-> 0, den |-> 1]
NoRow == [idx |-> 0]

Init ==
    /\ file \in InputFiles
    /\ pc = "load"
    /\ error = ""
    /\ df = <<>>
    /\ summary = <<>>
    /\ q1 = QNaN
    /\ bottom_25 = <<>>
    /\ profitable_cnt = 0
    /\ loss_cnt = 0
    /\ pct_profitable = QNaN
    /\ max_budget_row = NoRow
    /\ max_gross_row = NoRow
    /\ min_budget_row = NoRow
    /\ zero_domestic = <<>>
    /\ zero_worldwide = <<>>
    /\ printed = <<>>
    /\ intl_only = <<>>
    /\ data_clean = <<>>
    /\ unreleased = <<>>
    /\ losses = 0
    /\ X = <<>>
    /\ y = <<>>
    /\ theta_0 = QNaN
    /\ theta_1 = QNaN
    /\ pred = <<>>

\* --------------------------------------------------------------- 1) load
\* read_csv: the rows of the file under a RangeIndex (idx), or an exception
ReadCsv(f) == [i \in 1..Len(f.rows) |-> [idx |-> i, Movie_Title |-> i] @@ f.rows[i]]

Load ==
    /\ pc = "load"
    /\ IF file.exists
       THEN df' = ReadCsv(file) /\ pc' = "currency" /\ error' = error
       ELSE df' = df /\ pc' = "fatal" /\ error' = FileNotFoundError
    /\ UNCHANGED <<file, summary, q1, bottom_25, profitable_cnt, loss_cnt,
                   pct_profitable, max_budget_row, max_gross_row, min_budget_row,
                   zero_domestic, zero_worldwide, printed, intl_only, data_clean,
                   unreleased, losses, X, y, theta_0, theta_1, pred>>

\* ------------------------------------------------- 2) clean currency columns
CleanRow(r) == [r EXCEPT !.USD_Production_Budget = ToFloat(@),
                         !.USD_Worldwide_Gross = ToFloat(@),
                         !.USD_Domestic_Gross = ToFloat(@)]

CleanTable(t) == [i \in 1..Len(t) |-> CleanRow(t[i])]

AllConvertible(t) ==
    \A k \in 1..Len(currency_cols) : \A i \in 1..Len(t) : Convertible(t[i][currency_cols[k]])

CleanCurrency ==
    /\ pc = "currency"
    /\ IF AllConvertible(df)
       THEN df' = CleanTable(df) /\ pc' = "dates" /\ error' = error
       ELSE df' = df /\ pc' = "fatal" /\ error' = CurrencyError
    /\ UNCHANGED <<file, summary, q1, bottom_25, profitable_cnt, loss_cnt,
                   pct_profitable, max_budget_row, max_gross_row, min_budget_row,
                   zero_domestic, zero_worldwide, printed, intl_only, data_clean,
                   unreleased, losses, X, y, theta_0, theta_1, pred>>

\* ------------------------------------------------- 3) convert Release_Date
ParseDates(t) == [i \in 1..Len(t) |-> [t[i] EXCEPT !.Release_Date = ToDatetime(@)]]

ConvertDates ==
    /\ pc = "dates"
    /\ df' = ParseDates(df)
    /\ pc' = "summary"
    /\ UNCHANGED <<file, error, summary, q1, bottom_25, profitable_cnt, loss_cnt,
                   pct_profitable, max_budget_row, max_gross_row, min_budget_row,
                   zero_domestic, zero_worldwide, printed, intl_only, data_clean,
                   unreleased, losses, X, y, theta_0, theta_1, pred>>

\* -------------------------------------------------- 4) summary statistics
\* Series.mean(): the mean of the non-missing values, NaN when there are none
Mean(col) == IF Valid(col) = <<>> THEN QNaN ELSE Q(SumSeq(Valid(col)), Len(Valid(col)))

\* Series.min() / max(): over the non-missing values, NaN when there are none
Min(col) == IF Valid(col) = <<>> THEN NaN ELSE F(SortAsc(Valid(col))[1])
Max(col) == IF Valid(col) = <<>> THEN NaN ELSE F(SortAsc(Valid(col))[Len(Valid(col))])

DateAsFloat(t) == [i \in 1..Len(t) |-> [nan |-> t[i].Release_Date.nat, v |-> t[i].Release_Date.d]]
FloatAsDate(f) == [nat |-> f.nan, d |-> f.v]

Summarize ==
    /\ pc = "summary"
    /\ summary' = [avg_budget |-> Mean(Column(df, "USD_Production_Budget")),
                   avg_worldwide_gross |-> Mean(Column(df, "USD_Worldwide_Gross")),
                   min_worldwide_gross |-> Min(Column(df, "USD_Worldwide_Gross")),
                   min_domestic_gross |-> Min(Column(df, "USD_Domestic_Gross")),
                   rows |-> Len(df),
                   first_date |-> FloatAsDate(Min(DateAsFloat(df))),
                   last_date |-> FloatAsDate(Max(DateAsFloat(df)))]
    /\ pc' = "profit"
    /\ UNCHANGED <<file, error, df, q1, bottom_25, profitable_cnt, loss_cnt,
                   pct_profitable, max_budget_row, max_gross_row, min_budget_row,
                   zero_domestic, zero_worldwide, printed, intl_only, data_clean,
                   unreleased, losses, X, y, theta_0, theta_1, pred>>

\* --------------------------------------------------------------- 5) profit
AddProfit(t) ==
    [i \in 1..Len(t) |->
        t[i] @@ [Profit |-> Sub(t[i].USD_Worldwide_Gross, t[i].USD_Production_Budget)]]

ProfitCalc ==
    /\ pc = "profit"
    /\ df' = AddProfit(df)
    /\ pc' = "segment"
    /\ UNCHANGED <<file, error, summary, q1, bottom_25, profitable_cnt, loss_cnt,
                   pct_profitable, max_budget_row, max_gross_row, min_budget_row,
                   zero_domestic, zero_worldwide, printed, intl_only, data_clean,
                   unreleased, losses, X, y, theta_0, theta_1, pred>>

\* ------------------------------------------- 6) bottom-quartile profitability
\* Series.quantile(q): linear interpolation between the closest ranks of the
\* sorted non-missing values, at position (n - 1) * q; NaN when there are none
Quantile(col, pct) ==
    LET s == SortAsc(Valid(col))
        h == (Len(s) - 1) * pct
        k == h \div 100
        r == h % 100
    IN  IF s = <<>> THEN QNaN
        ELSE IF r = 0 THEN Q(100 * s[k + 1], 100)
        ELSE Q(100 * s[k + 1] + r * (s[k + 2] - s[k + 1]), 100)

\* float <= quotient, false when either is missing
LeQ(a, q) == ~a.nan /\ ~q.nan /\ a.v * q.den <= q.num

\* a variant that leaves ties at q1 out
BottomQuartileStrict(t, q) ==
    Mask(t, [i \in 1..Len(t) |-> LeQ(t[i].USD_Worldwide_Gross, q)
                                    /\ t[i].USD_Worldwide_Gross.v * q.den # q.num])

BottomQuartile(t, q) == Mask(t, [i \in 1..Len(t) |-> LeQ(t[i].USD_Worldwide_Gross, q)])

\* (s > 0).sum()
CountPositive(col) == Cardinality({i \in 1..Len(col) : Gt(col[i], F(0))})

Segment ==
    /\ pc = "segment"
    /\ q1' = Quantile(Column(df, "USD_Worldwide_Gross"), Q1Pct)
    /\ bottom_25' = BottomQuartile(df, q1')
    /\ profitable_cnt' = CountPositive(Column(bottom_25', "Profit"))
    /\ loss_cnt' = Len(bottom_25') - profitable_cnt'
    /\ pct_profitable' = IF Len(bottom_25') = 0 THEN QNaN
                         ELSE Q(profitable_cnt' * 100, Len(bottom_25'))
    /\ pc' = "plot"
    /\ UNCHANGED <<file, error, df, summary, max_budget_row, max_gross_row,
                   min_budget_row, zero_domestic, zero_worldwide, printed, intl_only,
                   data_clean, unreleased, losses, X, y, theta_0, theta_1, pred>>

\* ------------------------------------------------ 7) profit distribution plot
\* The histogram reads bottom_25 and changes no table.  With no finite Profit
\* to bin, whether the plotting library draws an empty figure or raises is
\* left open.
Plot ==
    /\ pc = "plot"
    /\ \/ pc' = "extremes" /\ error' = error
       \/ /\ Valid(Column(bottom_25, "Profit")) = <<>>
          /\ pc' = "fatal"
          /\ error' = PlotError
    /\ UNCHANGED <<file, df, summary, q1, bottom_25, profitable_cnt, loss_cnt,
                   pct_profitable, max_budget_row, max_gross_row, min_budget_row,
                   zero_domestic, zero_worldwide, printed, intl_only, data_clean,
                   unreleased, losses, X, y, theta_0, theta_1, pred>>

\* --------------------------------------------- 8) budget and revenue extremes
\* Series.idxmax(): the label of the first row holding the largest non-missing
\* value; 0 stands for the failure on an empty or all-missing column
\* a variant that reports the last row holding the largest value
IdxMaxLast(col) ==
    IF Valid(col) = <<>> THEN 0
    ELSE CHOOSE i \in 1..Len(col) :
            /\ Eq(col[i], Max(col))
            /\ \A j \in (i + 1)..Len(col) : ~Eq(col[j], Max(col))

IdxMax(col) ==
    IF Valid(col) = <<>> THEN 0
    ELSE CHOOSE i \in 1..Len(col) :
            /\ Eq(col[i], Max(col))
            /\ \A j \in 1..(i - 1) : ~Eq(col[j], Max(col))

IdxMin(col) ==
    IF Valid(col) = <<>> THEN 0
    ELSE CHOOSE i \in 1..Len(col) :
            /\ Eq(col[i], Min(col))
            /\ \A j \in 1..(i - 1) : ~Eq(col[j], Min(col))

Extremes ==
    /\ pc = "extremes"
    /\ LET b == IdxMax(Column(df, "USD_Production_Budget"))
           g == IdxMax(Column(df, "USD_Worldwide_Gross"))
           m == IdxMin(Column(df, "USD_Production_Budget"))
       IN  IF b = 0 \/ g = 0 \/ m = 0
           THEN /\ pc' = "fatal"
                /\ error' = ArgmaxError
                /\ UNCHANGED <<max_budget_row, max_gross_row, min_budget_row>>
           ELSE /\ max_budget_row' = df[b]
                /\ max_gross_row' = df[g]
                /\ min_budget_row' = df[m]
                /\ pc' = "zero"
                /\ error' = error
    /\ UNCHANGED <<file, df, summary, q1, bottom_25, profitable_cnt, loss_cnt,
                   pct_profitable, zero_domestic, zero_worldwide, printed, intl_only,
                   data_clean, unreleased, losses, X, y, theta_0, theta_1, pred>>

\* -------------------------------------------------------- 9) zero revenue films
ZeroGross(t, c) == Mask(t, [i \in 1..Len(t) |-> Eq(t[i][c], F(0))])

\* a variant that sorts ascending
BeforeAscending(a, b) == Gt(b, a) \/ (~a.nan /\ b.nan)

\* b may not come before a in a descending sort with missing values last
Before(a, b) == Gt(a, b) \/ (~a.nan /\ b.nan)

RECURSIVE TopOrders(_, _, _)
\* sort_values(c, ascending=False).head(n): the first n positions of t in every
\* order a descending sort may give; the default sort is not stable, so rows
\* with equal keys may come out in any order
TopOrders(t, S, n) ==
    IF S = {} \/ n = 0 THEN {<<>>}
    ELSE UNION {{<<i>> \o o : o \in TopOrders(t, S \ {i}, n - 1)} :
                i \in {i \in S : \A j \in S : ~Before(t[j].USD_Production_Budget,
                                                      t[i].USD_Production_Budget)}}

\* [["Movie_Title", "USD_Production_Budget"]]
TitleBudget(r) == [idx |-> r.idx, Movie_Title |-> r.Movie_Title,
                   USD_Production_Budget |-> r.USD_Production_Budget]

TopBudget(t) == {[j \in 1..Len(o) |-> TitleBudget(t[o[j]])] :
                    o \in TopOrders(t, 1..Len(t), HeadN)}

ZeroRevenue ==
    /\ pc = "zero"
    /\ zero_domestic' = ZeroGross(df, "USD_Domestic_Gross")
    /\ zero_worldwide' = ZeroGross(df, "USD_Worldwide_Gross")
    /\ printed' \in TopBudget(zero_domestic')
    /\ pc' = "zero_worldwide"
    /\ UNCHANGED <<file, error, df, summary, q1, bottom_25, profitable_cnt, loss_cnt,
                   pct_profitable, max_budget_row, max_gross_row, min_budget_row,
                   intl_only, data_clean, unreleased, losses, X, y, theta_0,
                   theta_1, pred>>

ZeroWorldwide ==
    /\ pc = "zero_worldwide"
    /\ printed' \in TopBudget(zero_worldwide)
    /\ pc' = "intl"
    /\ UNCHANGED <<file, error, df, summary, q1, bottom_25, profitable_cnt, loss_cnt,
                   pct_profitable, max_budget_row, max_gross_row, min_budget_row,
                   zero_domestic, zero_worldwide, intl_only, data_clean, unreleased,
                   losses, X, y, theta_0, theta_1, pred>>

\* ------------------------------------------------ 10) international-only releases
IntlRows(t) == Mask(t, [i \in 1..Len(t) |-> /\ Gt(t[i].USD_Worldwide_Gross, F(0))
                                            /\ Eq(t[i].USD_Domestic_Gross, F(0))])

FirstN(t, n) == SubSeq(t, 1, IF Len(t) < n THEN Len(t) ELSE n)

IntlOnly ==
    /\ pc = "intl"
    /\ intl_only' = IntlRows(df)
    /\ printed' = FirstN([j \in 1..Len(intl_only') |->
                            TitleBudget(intl_only'[j]) @@
                            [USD_Worldwide_Gross |-> intl_only'[j].USD_Worldwide_Gross]], HeadN)
    /\ pc' = "filter"
    /\ UNCHANGED <<file, error, df, summary, q1, bottom_25, profitable_cnt, loss_cnt,
                   pct_profitable, max_budget_row, max_gross_row, min_budget_row,
                   zero_domestic, zero_worldwide, data_clean, unreleased, losses,
                   X, y, theta_0, theta_1, pred>>

\* ---------------------------------------------- 11) filter out unreleased films
\* pd.Timestamp("2018-05-01")
cutoff == Date(20180501)

\* a variant that keeps every row that is not after the cutoff
ReleasedNotAfter(t) == Mask(t, [i \in 1..Len(t) |-> ~DateGt(t[i].Release_Date, cutoff)])

\* a variant that drops the films released on the cutoff day
ReleasedBefore(t) ==
    Mask(t, [i \in 1..Len(t) |-> DateLe(t[i].Release_Date, cutoff)
                                    /\ t[i].Release_Date # cutoff])

Released(t) == Mask(t, [i \in 1..Len(t) |-> DateLe(t[i].Release_Date, cutoff)])

Unreleased(t) == Mask(t, [i \in 1..Len(t) |-> DateGt(t[i].Release_Date, cutoff)])

\* a variant that filters the base table itself
FilterInPlace ==
    /\ pc = "filter"
    /\ df' = Mask(df, [i \in 1..Len(df) |-> DateLe(df[i].Release_Date, cutoff)])
    /\ data_clean' = df'
    /\ unreleased' = Mask(df, [i \in 1..Len(df) |-> DateGt(df[i].Release_Date, cutoff)])
    /\ pc' = "losses"
    /\ UNCHANGED <<file, error, summary, q1, bottom_25, profitable_cnt, loss_cnt,
                   pct_profitable, max_budget_row, max_gross_row, min_budget_row,
                   zero_domestic, zero_worldwide, printed, intl_only, losses,
                   X, y, theta_0, theta_1, pred>>

Filter ==
    /\ pc = "filter"
    /\ data_clean' = Released(df)
    /\ unreleased' = Unreleased(df)
    /\ pc' = "losses"
    /\ UNCHANGED <<file, error, df, summary, q1, bottom_25, profitable_cnt, loss_cnt,
                   pct_profitable, max_budget_row, max_gross_row, min_budget_row,
                   zero_domestic, zero_worldwide, printed, intl_only, losses,
                   X, y, theta_0, theta_1, pred>>

\* --------------------------------------------------- 12) films that lost money
\* the percentage printed is losses / len(data_clean) * 100; over an empty
\* data_clean that is a numpy division giving nan with a warning, no exception
CountLosses(t) ==
    Cardinality({i \in 1..Len(t) : Gt(t[i].USD_Production_Budget, t[i].USD_Worldwide_Gross)})

Losses ==
    /\ pc = "losses"
    /\ losses' = CountLosses(data_clean)
    /\ pc' = "regression"
    /\ UNCHANGED <<file, error, df, summary, q1, bottom_25, profitable_cnt, loss_cnt,
                   pct_profitable, max_budget_row, max_gross_row, min_budget_row,
                   zero_domestic, zero_worldwide, printed, intl_only, data_clean,
                   unreleased, X, y, theta_0, theta_1, pred>>

\* ------------------------------------------------------------- 13) regression
Dot(a, b) == SumSeq([i \in 1..Len(a) |-> a[i] * b[i]])

\* a variant that fits a line through the origin (no intercept)
FitLineThroughOrigin(xs, ys) ==
    IF Dot(xs, xs) = 0
    THEN [intercept |-> Q(0, 1), coef |-> Q(0, 1)]
    ELSE [intercept |-> Q(0, Dot(xs, xs)), coef |-> Q(Dot(xs, ys), Dot(xs, xs))]

\* LinearRegression().fit on one predictor: least squares on the centred data.
\* With every x equal the centred predictor is zero and the minimum-norm
\* solution has slope 0, so the intercept is the mean of y.  The intercept and
\* the slope share one denominator.
FitLine(xs, ys) ==
    LET n == Len(xs)
        sx == SumSeq(xs)
        sy == SumSeq(ys)
        sxx == n * Dot(xs, xs) - sx * sx
        sxy == n * Dot(xs, ys) - sx * sy
    IN  IF sxx = 0
        THEN [intercept |-> Q(sy, n), coef |-> Q(0, n)]
        ELSE [intercept |-> Q(sy * sxx - sxy * sx, n * sxx), coef |-> Q(n * sxy, n * sxx)]

\* model.predict([[budget]]): intercept + coef * budget, as
\* (lo + hi * 1000000) / den so that no term leaves 32 bits
Predict(t0, t1, budget) ==
    [lo |-> t0.num + t1.num * (budget % 1000000),
     hi |-> t1.num * (budget \div 1000000),
     den |-> t0.den]

PredictBudgets == <<150000000, 350000000>>

HasNaN(col) == \E i \in 1..Len(col) : col[i].nan

Regression ==
    /\ pc = "regression"
    /\ X' = Column(data_clean, "USD_Production_Budget")
    /\ y' = Column(data_clean, "USD_Worldwide_Gross")
    /\ IF Len(X') = 0
       THEN /\ pc' = "fatal"
            /\ error' = NoSamplesError
            /\ UNCHANGED <<theta_0, theta_1, pred>>
       ELSE IF HasNaN(X') \/ HasNaN(y')
       THEN /\ pc' = "fatal"
            /\ error' = NaNInputError
            /\ UNCHANGED <<theta_0, theta_1, pred>>
       ELSE LET model == FitLine(Valid(X'), Valid(y'))
            IN  /\ theta_0' = model.intercept
                /\ theta_1' = model.coef
                /\ pred' = [k \in 1..Len(PredictBudgets) |->
                              Predict(model.intercept, model.coef, PredictBudgets[k])]
                /\ pc' = "done"
                /\ error' = error
    /\ UNCHANGED <<file, df, summary, q1, bottom_25, profitable_cnt, loss_cnt,
                   pct_profitable, max_budget_row, max_gross_row, min_budget_row,
                   zero_domestic, zero_worldwide, printed, intl_only, data_clean,
                   unreleased, losses>>

\* ---------------------------------------------------------- the whole script
Next ==
    \/ Load
    \/ CleanCurrency
    \/ ConvertDates
    \/ Summarize
    \/ ProfitCalc
    \/ Segment
    \/ Plot
    \/ Extremes
    \/ ZeroRevenue
    \/ ZeroWorldwide
    \/ IntlOnly
    \/ Filter
    \/ Losses
    \/ Regression

Spec == Init /\ [][Next]_vars

\* ================================================================ properties
\* how far the run has come
Cleaned == /\ pc \notin {"load", "currency", "dates"}
           /\ ~(pc = "fatal" /\ error \in {FileNotFoundError, CurrencyError})
Segmented == Cleaned /\ pc \notin {"summary", "profit", "segment"}
Filtered == \/ pc \in {"losses", "regression", "done"}
            \/ pc = "fatal" /\ error \in {NoSamplesError, NaNInputError}
ExtremesFound == Filtered \/ pc \in {"zero", "zero_worldwide", "intl", "filter"}
Fitted == pc = "done" \/ (pc = "fatal" /\ error \in {NoSamplesError, NaNInputError})

InTable(r, t) == \E j \in 1..Len(t) : t[j] = r

C2_CurrencyNonNegative ==
    (pc # "load" /\ pc # "currency" /\ ~(pc = "fatal" /\ error \in {FileNotFoundError, CurrencyError}))
        => \A i \in 1..Len(df) : \A k \in 1..Len(currency_cols) :
               ~df[i][currency_cols[k]].nan /\ df[i][currency_cols[k]].v >= 0

\* ---- C3
\* C3: a run ends fatally only on a missing file or a currency cell that is
\* not numeric after stripping; every other run reaches the end of the report.
C3_FatalOnlyFileOrCurrency ==
    pc = "fatal" => error \in {FileNotFoundError, CurrencyError}

\* ---- C4
\* C4: after the cutoff filter a row with a parsed date after 2018-05-01 is in
\* unreleased and not in data_clean, a row with a parsed date on or before it
\* is in data_clean, and the regression is given exactly the budgets and
\* grosses of data_clean.
C4_CutoffSplit ==
    /\ Filtered =>
          \A i \in 1..Len(df) :
             LET date == df[i].Release_Date
             IN  /\ (~date.nat /\ date.d > 20180501) =>
                        InTable(df[i], unreleased) /\ ~InTable(df[i], data_clean)
                 /\ (~date.nat /\ date.d <= 20180501) => InTable(df[i], data_clean)
    /\ Fitted =>
          /\ Len(X) = Len(data_clean) /\ Len(y) = Len(data_clean)
          /\ \A j \in 1..Len(data_clean) :
                /\ X[j] = data_clean[j].USD_Production_Budget
                /\ y[j] = data_clean[j].USD_Worldwide_Gross
    /\ pc = "done" =>
          /\ theta_0 = FitLine(Valid(X), Valid(y)).intercept
          /\ theta_1 = FitLine(Valid(X), Valid(y)).coef

C4_Witness ==
    /\ pc = "done"
    /\ \E i \in 1..Len(df) : file.rows[i].Release_Date = DayAfter
    /\ \E i \in 1..Len(df) : file.rows[i].Release_Date = DayCutoff
    /\ Len(unreleased) > 0
    /\ Len(data_clean) > 0

\* ---- C5
\* the number at rank k (from 0) of the non-missing values of a column
AtRank(col, k) ==
    CHOOSE v \in {col[i].v : i \in {i \in 1..Len(col) : ~col[i].nan}} :
        /\ Cardinality({i \in 1..Len(col) : ~col[i].nan /\ col[i].v < v}) <= k
        /\ Cardinality({i \in 1..Len(col) : ~col[i].nan /\ col[i].v <= v}) > k

\* C5: q1 is the 25th percentile of Worldwide Gross over the whole table,
\* interpolated linearly between the two closest ranks, and bottom_25 is, in
\* table order, exactly the rows with Worldwide Gross <= q1: ties at q1 are in
\* it and no row of it exceeds q1.
C5_BottomQuartile ==
    Segmented =>
       LET col == Column(df, "USD_Worldwide_Gross")
           n == Cardinality({i \in 1..Len(col) : ~col[i].nan})
           k == (n - 1) \div 4
           r == (n - 1) % 4
           lower == AtRank(col, k)
           upper == AtRank(col, IF r = 0 THEN k ELSE k + 1)
           in == {i \in 1..Len(df) : ~col[i].nan /\ 4 * col[i].v <= (4 - r) * lower + r * upper}
       IN  IF n = 0 THEN q1.nan /\ bottom_25 = <<>>
           ELSE /\ ~q1.nan
                /\ 4 * q1.num = q1.den * ((4 - r) * lower + r * upper)
                /\ Len(bottom_25) = Cardinality(in)
                /\ \A i \in 1..Len(df) : InTable(df[i], bottom_25) <=> i \in in
                /\ \A j \in 1..Len(bottom_25) :
                      /\ bottom_25[j].USD_Worldwide_Gross.v * q1.den <= q1.num
                      /\ \A j2 \in 1..(j - 1) : bottom_25[j2].idx < bottom_25[j].idx

C5_Witness ==
    /\ pc = "done"
    /\ Len(df) = 3
    /\ Len(bottom_25) = 1
    /\ q1.num % q1.den # 0
    /\ \E i \in 1..Len(df) : df[i].USD_Worldwide_Gross.v * q1.den > q1.num

C5_TieWitness ==
    /\ pc = "done"
    /\ Len(bottom_25) < Len(df)
    /\ \E j \in 1..Len(bottom_25) : \E j2 \in 1..Len(bottom_25) :
          /\ j # j2
          /\ bottom_25[j].USD_Worldwide_Gross.v * q1.den = q1.num
          /\ bottom_25[j2].USD_Worldwide_Gross.v * q1.den = q1.num

Le(a, b) == ~a.nan /\ ~b.nan /\ a.v <= b.v

\* ---- C6
\* C6: profitable_cnt is the number of rows of bottom_25 with Profit > 0,
\* loss_cnt is the number with Profit <= 0, and the two add up to the size of
\* bottom_25.
C6_CountsPartition ==
    Segmented =>
       /\ profitable_cnt = Cardinality({j \in 1..Len(bottom_25) : Gt(bottom_25[j].Profit, F(0))})
       /\ loss_cnt = Cardinality({j \in 1..Len(bottom_25) : Le(bottom_25[j].Profit, F(0))})
       /\ profitable_cnt + loss_cnt = Len(bottom_25)

\* ---- C7
\* r holds the largest (sign = 1) or smallest (sign = -1) non-missing value of
\* column c of the base table, and is the first row of the table that does
FirstExtreme(r, c, sign) ==
    /\ InTable(r, df)
    /\ ~r[c].nan
    /\ \A i \in 1..Len(df) :
          /\ ~df[i][c].nan => sign * df[i][c].v <= sign * r[c].v
          /\ (~df[i][c].nan /\ df[i][c].v = r[c].v) => r.idx <= df[i].idx

\* C7: the three reported rows hold the largest Production Budget, the
\* largest Worldwide Gross and the smallest Production Budget of the whole
\* table, and each is the first row in table order that does.
C7_ExtremesFirst ==
    ExtremesFound =>
       /\ FirstExtreme(max_budget_row, "USD_Production_Budget", 1)
       /\ FirstExtreme(max_gross_row, "USD_Worldwide_Gross", 1)
       /\ FirstExtreme(min_budget_row, "USD_Production_Budget", -1)

C7_Witness ==
    /\ pc = "done"
    /\ Len(df) = 3
    /\ max_budget_row.idx = 2
    /\ Eq(df[3].USD_Production_Budget, max_budget_row.USD_Production_Budget)
    /\ min_budget_row.idx = 1
    /\ max_gross_row.idx # 1

\* ---- C8
\* p lists the films with column c equal to 0: min(5, k) of the k such rows,
\* each once, never a larger budget after a smaller one, and no unlisted such
\* row with a budget above a listed one
ZeroListing(p, c) ==
    LET Z == {i \in 1..Len(df) : ~df[i][c].nan /\ df[i][c].v = 0}
        listed == {p[j].idx : j \in 1..Len(p)}
        budget(i) == df[i].USD_Production_Budget
    IN  /\ Len(p) = (IF Cardinality(Z) < 5 THEN Cardinality(Z) ELSE 5)
        /\ listed \subseteq Z
        /\ Cardinality(listed) = Len(p)
        /\ \A j \in 1..Len(p) : p[j].USD_Production_Budget = budget(p[j].idx)
        /\ \A j \in 1..Len(p) : \A j2 \in 1..(j - 1) :
              ~(~budget(p[j].idx).nan /\ ~budget(p[j2].idx).nan
                    /\ budget(p[j].idx).v > budget(p[j2].idx).v)
        /\ \A z \in Z \ listed : \A j \in 1..Len(p) :
              ~(~budget(z).nan /\ ~budget(p[j].idx).nan /\ budget(z).v > budget(p[j].idx).v)

\* C8: the listing printed for zero domestic gross, and the one printed for
\* zero worldwide gross, are the top five by Production Budget of those rows.
C8_ZeroListings ==
    /\ pc = "zero_worldwide" => ZeroListing(printed, "USD_Domestic_Gross")
    /\ pc = "intl" => ZeroListing(printed, "USD_Worldwide_Gross")

C8_Witness ==
    /\ pc = "zero_worldwide"
    /\ Len(zero_domestic) > 5
    /\ Len(zero_domestic) < Len(df)
    /\ Len(printed) = 5
    /\ printed[1].USD_Production_Budget.v > printed[5].USD_Production_Budget.v
    /\ \E i \in 1..Len(zero_domestic) :
          /\ zero_domestic[i].USD_Production_Budget.v = 2
          /\ \E i2 \in 1..(i - 1) : zero_domestic[i2].USD_Production_Budget.v = 1

C8_WorldwideWitness ==
    /\ pc = "intl"
    /\ Len(printed) = 3
    /\ printed[1].idx = 3

\* ---- C9
CleanedFields == {"idx", "Movie_Title", "Release_Date", "USD_Production_Budget",
                  "USD_Domestic_Gross", "USD_Worldwide_Gross"}

\* C9: from the end of cleaning on, a step leaves the rows of the base table,
\* their order and every cleaned field as they are; the one change is section
\* 5 adding Profit = Worldwide Gross - Production Budget to every row.
C9_BaseTableFrame ==
    [][(pc \notin {"load", "currency", "dates"}) =>
          /\ Len(df') = Len(df)
          /\ \A i \in 1..Len(df) : \A c \in CleanedFields : df'[i][c] = df[i][c]
          /\ pc # "profit" => df' = df
          /\ pc = "profit" =>
                \A i \in 1..Len(df) :
                   LET g == df[i].USD_Worldwide_Gross
                       b == df[i].USD_Production_Budget
                   IN  /\ DOMAIN df'[i] = CleanedFields \cup {"Profit"}
                       /\ df'[i].Profit = (IF g.nan \/ b.nan THEN NaN ELSE F(g.v - b.v))]_vars

C9_Witness ==
    /\ pc = "done"
    /\ Len(df) = 3
    /\ \A i \in 1..Len(df) : "Profit" \in DOMAIN df[i]
    /\ Len(bottom_25) \in 1..2
    /\ Len(data_clean) \in 1..2
    /\ Len(unreleased) > 0
    /\ Len(zero_domestic) = 0

\* ---- C10
OnLine == \A j \in 1..Len(data_clean) :
             /\ ~data_clean[j].USD_Worldwide_Gross.nan
             /\ ~data_clean[j].USD_Production_Budget.nan
             /\ data_clean[j].USD_Worldwide_Gross.v
                   = 2 * data_clean[j].USD_Production_Budget.v + 1000

LineRecovered ==
    /\ theta_0.num = 1000 * theta_0.den
    /\ theta_1.num = 2 * theta_1.den
    /\ pred[1].lo = 1000 * pred[1].den /\ pred[1].hi = 300 * pred[1].den
    /\ pred[2].lo = 1000 * pred[2].den /\ pred[2].hi = 700 * pred[2].den

\* C10 as stated: whenever every row of the regression input has
\* gross = 2 * budget + 1000, the fit gives intercept 1000 and slope 2, and
\* the predictions at 150,000,000 and 350,000,000 are 1000 + 2 * budget.
C10_LineRecoveredAlways == (pc = "done" /\ OnLine) => LineRecovered

\* C10 amended: the same, for a regression input in which at least two rows
\* differ in Production Budget; and for every fit the two predictions are
\* theta_0 + theta_1 * budget.
C10_LineRecoveredTwoBudgets ==
    /\ (/\ pc = "done"
        /\ OnLine
        /\ \E j \in 1..Len(data_clean) : \E j2 \in 1..Len(data_clean) :
              data_clean[j].USD_Production_Budget # data_clean[j2].USD_Production_Budget)
          => LineRecovered
    /\ pc = "done" =>
          /\ Len(pred) = 2
          /\ theta_0.den = theta_1.den
          /\ pred[1].den = theta_0.den /\ pred[2].den = theta_0.den
          /\ pred[1].lo = theta_0.num /\ pred[1].hi = theta_1.num * 150
          /\ pred[2].lo = theta_0.num /\ pred[2].hi = theta_1.num * 350

C10_Witness ==
    /\ pc = "done"
    /\ OnLine
    /\ Len(data_clean) = 2
    /\ Len(df) = 3
    /\ data_clean[1].USD_Production_Budget.v = 2
    /\ data_clean[2].USD_Production_Budget.v = 1
    /\ theta_1.num = 2 * theta_1.den

====
